---- MODULE Spec2Model ----
(***************************************************************************)
(* SoulSmith: the transcript-to-metrics scoring pipeline                   *)
(* (src/story_processing.py) and the single-session request layer          *)
(* (src/server.py).                                                        *)
(*                                                                         *)
(* JSON values are tagged records: a string s is Str(s), null is None, a   *)
(* list l is List(l), a dict is a record whose DOMAIN is its key set.      *)
(* A Python call either returns (Ok(v)) or ends in an exception            *)
(* (Raise(kind)).                                                          *)
(*                                                                         *)
(* Numbers that Python keeps as floats rounded to d decimals are kept as   *)
(* integers in units of 10^-d: diversity_ratio in hundredths,              *)
(* avg_word_length, avg_response_words and the summary's vocabulary_score  *)
(* and overall_score in tenths.                                            *)
(***************************************************************************)
EXTENDS Integers, Sequences, FiniteSets, TLC

VARIABLES
    session_data,        \* server.py: the global session dict
    ADVENTURE_AGENT_ID,  \* server.py: configuration read from the environment
    response,            \* the last HTTP response the server produced
    established,         \* history: the last /reset and the routes that answered 200 since
    in_flight,           \* server.py: the handlers waiting for the provider's answer
    arg_intro,           \* library call: the earlier transcript passed in
    arg_story,           \* library call: the later transcript passed in
    arg_text,            \* library call: the text passed in
    ret                  \* library call: what the last call returned or raised

vars == <<session_data, ADVENTURE_AGENT_ID, response, established, in_flight,
          arg_intro, arg_story, arg_text, ret>>

server_vars == <<session_data, ADVENTURE_AGENT_ID, response, established, in_flight>>

call_vars == <<arg_intro, arg_story, arg_text, ret>>

---------------------------------------------------------------------------
(* JSON values and call outcomes *)

None == [null |-> TRUE]

Str(s) == [str |-> s]

List(l) == [list |-> l]

Ok(v) == [exc |-> "none", val |-> v]

Raise(kind) == [exc |-> kind]

Returned(r) == r.exc = "none"

\* Python truthiness of a value that is None, a string or a dict
Truthy(v) == v # None /\ v # Str("") /\ v # << >>

\* d.get(key) and d.get(key, default)
Get(d, key, default) == IF key \in DOMAIN d THEN d[key] ELSE default

Min(a, b) == IF a <= b THEN a ELSE b

---------------------------------------------------------------------------
(* str methods *)

Char(s, i) == SubSeq(s, i, i)

\* the characters str.split() and str.strip() treat as whitespace
Whitespace == {" ", "\t", "\n", "\r", "\f"}

UpperCase == "ABCDEFGHIJKLMNOPQRSTUVWXYZ"

LowerCase == "abcdefghijklmnopqrstuvwxyz"

Digits == "0123456789"

LowerOf ==
    [c \in {Char(UpperCase, i) : i \in 1..26} |->
        Char(LowerCase, CHOOSE i \in 1..26 : Char(UpperCase, i) = c)]

\* the characters the regular expression \w matches
WordChars ==
    {Char(UpperCase, i) : i \in 1..26} \cup {Char(LowerCase, i) : i \in 1..26}
        \cup {Char(Digits, i) : i \in 1..10} \cup {"_"}

RECURSIVE LowerRange(_, _, _)
\* the characters i..j of text, each lower-cased (halving keeps the depth small)
LowerRange(text, i, j) ==
    IF i > j THEN ""
    ELSE IF i = j
         THEN LET c == Char(text, i) IN IF c \in DOMAIN LowerOf THEN LowerOf[c] ELSE c
         ELSE LET mid == (i + j) \div 2
              IN  LowerRange(text, i, mid) \o LowerRange(text, mid + 1, j)

\* text.lower()
lower(text) == LowerRange(text, 1, Len(text))

IsSpaceAt(text, k) == Char(text, k) \in Whitespace

RECURSIVE SplitRange(_, _, _)
\* the maximal runs of non-whitespace characters within text[i..j], in
\* order: the range is cut at a whitespace character near its middle
SplitRange(text, i, j) ==
    IF i > j THEN << >>
    ELSE IF \A k \in i..j : ~IsSpaceAt(text, k) THEN <<SubSeq(text, i, j)>>
    ELSE LET mid == (i + j) \div 2
             cut == IF \E k \in mid..j : IsSpaceAt(text, k)
                    THEN CHOOSE k \in mid..j :
                             IsSpaceAt(text, k) /\ \A h \in mid..(k - 1) : ~IsSpaceAt(text, h)
                    ELSE CHOOSE k \in i..(mid - 1) :
                             IsSpaceAt(text, k) /\ \A h \in (k + 1)..(mid - 1) : ~IsSpaceAt(text, h)
         IN  SplitRange(text, i, cut - 1) \o SplitRange(text, cut + 1, j)

\* text.split(): the maximal runs of non-whitespace characters, in order
split(text) == SplitRange(text, 1, Len(text))

RECURSIVE StripNonWordRange(_, _, _)
StripNonWordRange(w, i, j) ==
    IF i > j THEN ""
    ELSE IF i = j
         THEN LET c == Char(w, i) IN IF c \in WordChars THEN c ELSE ""
         ELSE LET mid == (i + j) \div 2
              IN  StripNonWordRange(w, i, mid) \o StripNonWordRange(w, mid + 1, j)

\* re.sub(r'[^\w]', '', w)
StripNonWord(w) == StripNonWordRange(w, 1, Len(w))

\* text.strip().endswith("?")
StripEndsWithQuestion(text) ==
    \E i \in 1..Len(text) :
        /\ Char(text, i) = "?"
        /\ \A j \in (i + 1)..Len(text) : IsSpaceAt(text, j)

\* Faulty variant: word in text.split() (a whole-token match).
Contains_TokenMatch(word, text) ==
    \E i \in 1..Len(split(text)) : split(text)[i] = word

\* word in text (substring containment)
Contains(word, text) ==
    \E i \in 1..(Len(text) - Len(word) + 1) : SubSeq(text, i, i + Len(word) - 1) = word

RECURSIVE JoinRange(_, _, _, _)
JoinRange(sep, texts, i, j) ==
    IF i > j THEN ""
    ELSE IF i = j THEN texts[i]
    ELSE LET mid == (i + j) \div 2
         IN  JoinRange(sep, texts, i, mid) \o sep \o JoinRange(sep, texts, mid + 1, j)

\* sep.join(texts)
Join(sep, texts) == JoinRange(sep, texts, 1, Len(texts))

RECURSIVE SumRange(_, _, _)
\* sum(ns[i..j]) for a list of numbers
SumRange(ns, i, j) ==
    IF i > j THEN 0
    ELSE IF i = j THEN ns[i]
    ELSE LET mid == (i + j) \div 2 IN SumRange(ns, i, mid) + SumRange(ns, mid + 1, j)

\* sum(ns)
Sum(ns) == SumRange(ns, 1, Len(ns))

---------------------------------------------------------------------------
(* round(p / q, d) on floats, as an integer count of units 10^-d          *)
(* (scale = 10^d), for integers p >= 0 and q > 0.                          *)
(* p / q is the double nearest to the quotient and round() rounds that     *)
(* double correctly, ties to even.  Away from a decimal tie the result is  *)
(* the unit nearest to the exact quotient.  On a decimal tie the double is *)
(* the quotient itself when the quotient is dyadic (ties to even), and     *)
(* otherwise lies just above or just below it, which decides the result.   *)

RECURSIVE Gcd(_, _)
Gcd(a, b) == IF b = 0 THEN a ELSE Gcd(b, a % b)

RECURSIVE IsPowerOfTwo(_)
IsPowerOfTwo(n) == n = 1 \/ (n > 1 /\ n % 2 = 0 /\ IsPowerOfTwo(n \div 2))

RECURSIVE Normalize(_, _)
\* <<a, b>> with a / b = p / q * 2^k and 1 <= a / b < 2
Normalize(a, b) ==
    IF a < b THEN Normalize(2 * a, b)
    ELSE IF a >= 2 * b THEN Normalize(a, 2 * b)
    ELSE <<a, b>>

RECURSIVE RemainderAfter(_, _, _)
\* the remainder left after n more binary digits of the quotient
RemainderAfter(r, b, n) == IF n = 0 THEN r ELSE RemainderAfter((2 * r) % b, b, n - 1)

\* the double nearest to p / q is greater than p / q (53-bit significand)
DoubleAbove(p, q) ==
    LET ab == Normalize(p, q)
        r == RemainderAfter(ab[1] - ab[2], ab[2], 52)
    IN  2 * r > ab[2]

PyRound(p, q, scale) ==
    LET n == (p * scale) \div q
        r == (p * scale) % q
    IN  IF 2 * r < q THEN n
        ELSE IF 2 * r > q THEN n + 1
        ELSE IF IsPowerOfTwo(q \div Gcd(p, q))
             THEN (IF n % 2 = 0 THEN n ELSE n + 1)
             ELSE (IF DoubleAbove(p, q) THEN n + 1 ELSE n)

---------------------------------------------------------------------------
(* Float arithmetic of the summary scores.  A double x that is 0 or has    *)
(* 2^-7 <= x < 2^7 (every float the summary computes: 0.01 is the least    *)
(* non-zero one) is a multiple of 2^-60 and is kept as the integer         *)
(* x * 2^60 in three 24-bit limbs <<low, middle, high>>.  Each operation   *)
(* computes the exact result and rounds it to 53 significant bits, ties    *)
(* to even, as IEEE 754 does.                                              *)

Limb == 2^24

\* carries propagated, every limb below Limb except the highest
Carry(n) ==
    LET c1 == n[1] \div Limb
        c2 == (n[2] + c1) \div Limb
    IN  <<n[1] % Limb, (n[2] + c1) % Limb, n[3] + c2>>

BigAdd(a, b) == Carry(<<a[1] + b[1], a[2] + b[2], a[3] + b[3]>>)

\* a * k for a small integer k
BigTimes(a, k) == Carry(<<a[1] * k, a[2] * k, a[3] * k>>)

BigLess(a, b) ==
    \/ a[3] < b[3]
    \/ a[3] = b[3] /\ a[2] < b[2]
    \/ a[3] = b[3] /\ a[2] = b[2] /\ a[1] < b[1]

RECURSIVE BitLength(_)
BitLength(n) == IF n = 0 THEN 0 ELSE 1 + BitLength(n \div 2)

BigBitLength(a) ==
    IF a[3] > 0 THEN 48 + BitLength(a[3])
    ELSE IF a[2] > 0 THEN 24 + BitLength(a[2])
    ELSE BitLength(a[1])

\* the double nearest to a (+ a little more when sticky), ties to even
RoundToDouble(a, sticky) ==
    LET drop == BigBitLength(a) - 53
    IN  IF drop <= 0 THEN a
        ELSE LET unit == 2^drop
                 low == a[1] % unit
                 odd == (a[1] \div unit) % 2 = 1
                 up == 2 * low > unit \/ (2 * low = unit /\ (sticky \/ odd))
             IN  Carry(<<a[1] - low + (IF up THEN unit ELSE 0), a[2], a[3]>>)

\* the int n as a float
FloatOfInt(n) == <<0, 0, n * 2^12>>

\* p / q for ints p >= 0 and 0 < q < 128: long division, limb by limb
FloatQuotient(p, q) ==
    LET q3 == (p * 2^12) \div q
        r3 == (p * 2^12) % q
        q2 == (r3 * Limb) \div q
        r2 == (r3 * Limb) % q
        q1 == (r2 * Limb) \div q
        r1 == (r2 * Limb) % q
    IN  RoundToDouble(<<q1, q2, q3>>, r1 # 0)

FloatAdd(a, b) == RoundToDouble(BigAdd(a, b), FALSE)

\* a * k for an int k
FloatTimes(a, k) == RoundToDouble(BigTimes(a, k), FALSE)

\* round(a / divisor, 1) in tenths, for divisor 1 or 4 (a division by 4 is
\* exact): round() takes the tenth nearest to the double's exact value,
\* ties to even
RoundTenths(a, divisor) ==
    LET m == BigTimes(a, 10)
        one == 2^12 * divisor
        n == m[3] \div one
        frac == <<m[1], m[2], m[3] % one>>
        half == <<0, 0, one \div 2>>
    IN  IF BigLess(frac, half) THEN n
        ELSE IF frac = half THEN n + (n % 2)
        ELSE n + 1

---------------------------------------------------------------------------
(* story_processing.py *)

\* m.get("role") == "user"
IsUserMessage(m) == Get(m, "role", None) = Str("user")

\* [m for m in messages if m.get("role") == "user"]
UserMessages(messages) == SelectSeq(messages, IsUserMessage)

\* messages = transcript.get("messages", []) and then
\* [m["text"] for m in messages if m.get("role") == "user"]:
\* a list of the user texts, or the KeyError the comprehension ends in.
UserTexts(transcript) ==
    LET messages == Get(transcript, "messages", List(<< >>)).list
        users == UserMessages(messages)
    IN  IF \E i \in 1..Len(users) : "text" \notin DOMAIN users[i]
        THEN Raise("KeyError")
        ELSE Ok([i \in 1..Len(users) |-> users[i].text])

\* sep.join(texts) on a list of JSON values: str.join accepts only strings
JoinTexts(sep, texts) ==
    IF \E i \in 1..Len(texts) : "str" \notin DOMAIN texts[i]
    THEN Raise("TypeError")
    ELSE Ok(Join(sep, [i \in 1..Len(texts) |-> texts[i].str]))

StoryPromptHead ==
    "You are a warm, engaging storyteller for children aged 4-8.\n"
    \o "You are about to tell an interactive story based on what the child shared with you.\n"
    \o "\n"
    \o "Here is what the child told you during the intro:\n"
    \o "---\n"

StoryPromptTail ==
    "\n---\n"
    \o "\n"
    \o "STORYTELLING GUIDELINES:\n"
    \o "1. Create a personalized adventure incorporating the child's interests and preferences\n"
    \o "2. Use simple, age-appropriate language\n"
    \o "3. Pause occasionally to ask the child questions like \"What do you think happens next?\"\n"
    \o "4. Include the child as the hero of the story\n"
    \o "5. Keep the story positive, magical, and encouraging\n"
    \o "6. The story should last about 3-5 minutes when told aloud\n"
    \o "7. End with a happy, satisfying conclusion\n"
    \o "\n"
    \o "Begin the story with \"Once upon a time...\" and make it magical!\n"

\* Faulty variant: the user texts are joined with a space, as extract_user_text does.
build_story_prompt_SpaceJoin(intro_transcript) ==
    LET user_messages == UserTexts(intro_transcript)
    IN  IF ~Returned(user_messages) THEN user_messages
        ELSE LET child_responses == JoinTexts(" ", user_messages.val)
             IN  IF ~Returned(child_responses) THEN child_responses
                 ELSE Ok(StoryPromptHead \o child_responses.val \o StoryPromptTail)

build_story_prompt(intro_transcript) ==
    LET user_messages == UserTexts(intro_transcript)
    IN  IF ~Returned(user_messages) THEN user_messages
        ELSE LET child_responses == JoinTexts("\n", user_messages.val)
             IN  IF ~Returned(child_responses) THEN child_responses
                 ELSE Ok(StoryPromptHead \o child_responses.val \o StoryPromptTail)

extract_user_text(transcript) ==
    LET user_texts == UserTexts(transcript)
    IN  IF ~Returned(user_texts) THEN user_texts
        ELSE JoinTexts(" ", user_texts.val)

count_words(text) == Len(split(text))

RECURSIVE SpaceNonWordRange(_, _, _)
SpaceNonWordRange(w, i, j) ==
    IF i > j THEN ""
    ELSE IF i = j
         THEN LET c == Char(w, i) IN IF c \in WordChars THEN c ELSE " "
         ELSE LET mid == (i + j) \div 2
              IN  SpaceNonWordRange(w, i, mid) \o SpaceNonWordRange(w, mid + 1, j)

\* Faulty variant: punctuation is replaced by a space and the token split again,
\* so "that's" counts as two words.
count_unique_words_SplitOnPunctuation(text) ==
    LET words == split(SpaceNonWordRange(lower(text), 1, Len(text)))
    IN  Cardinality({words[i] : i \in 1..Len(words)})

count_unique_words(text) ==
    LET words == split(lower(text))
        stripped == [i \in 1..Len(words) |-> StripNonWord(words[i])]
    IN  Cardinality({stripped[i] : i \in {j \in 1..Len(words) : stripped[j] # ""}})

\* Faulty variant: floor division (unique_words // total_words) for the ratio.
calculate_vocabulary_metrics_FloorDiv(text) ==
    LET total_words == count_words(text)
        unique_words == count_unique_words(text)
        words == split(text)
    IN  [total_words |-> total_words,
         unique_words |-> unique_words,
         diversity_ratio |->
             IF total_words > 0 THEN 100 * (unique_words \div total_words) ELSE 0,
         avg_word_length |->
             IF Len(words) > 0
             THEN PyRound(Sum([i \in 1..Len(words) |-> Len(words[i])]), Len(words), 10)
             ELSE 0]

calculate_vocabulary_metrics(text) ==
    LET total_words == count_words(text)
        unique_words == count_unique_words(text)
        words == split(text)
    IN  [total_words |-> total_words,
         unique_words |-> unique_words,
         diversity_ratio |->
             IF total_words > 0 THEN PyRound(unique_words, total_words, 100) ELSE 0,
         avg_word_length |->
             IF Len(words) > 0 THEN PyRound(Sum([i \in 1..Len(words) |-> Len(words[i])]), Len(words), 10) ELSE 0]

\* Called only after extract_user_text(transcript) returned, so every user
\* message carries a string text.
calculate_engagement_metrics(transcript) ==
    LET messages == Get(transcript, "messages", List(<< >>)).list
        user_messages == UserMessages(messages)
        questions_asked ==
            Cardinality({i \in 1..Len(user_messages) :
                            StripEndsWithQuestion(user_messages[i].text.str)})
        user_texts == [i \in 1..Len(user_messages) |-> user_messages[i].text]
    IN  [total_exchanges |-> Len(messages),
         child_responses |-> Len(user_messages),
         questions_asked |-> questions_asked,
         avg_response_words |->
             IF Len(user_texts) > 0
             THEN PyRound(Sum([i \in 1..Len(user_texts) |-> count_words(user_texts[i].str)]),
                          Len(user_texts), 10)
             ELSE 0]

imagination_words ==
    <<"magic", "magical", "unicorn", "dragon", "fairy", "wizard",
      "castle", "adventure", "imagine", "pretend", "flying", "superhero",
      "princess", "knight", "treasure", "secret", "rainbow">>

descriptive_words ==
    <<"big", "small", "beautiful", "scary", "funny", "happy", "sad",
      "colorful", "sparkly", "giant", "tiny", "amazing", "wonderful">>

character_words == <<"friend", "monster", "animal", "pet", "person">>

setting_words == <<"forest", "castle", "house", "school", "ocean", "sky", "mountain">>

\* sum(1 for word in words if word in text)
CountPresent(words, text) ==
    Cardinality({i \in 1..Len(words) : Contains(words[i], text)})

\* any(word in text for word in words)
AnyPresent(words, text) == \E i \in 1..Len(words) : Contains(words[i], text)

\* Faulty variant: the score is not clamped.
ClampScore_Unclamped(raw) == raw

\* min(10, raw)
ClampScore(raw) == Min(10, raw)

calculate_creativity_indicators(text) ==
    LET text_lower == lower(text)
        imagination_count == CountPresent(imagination_words, text_lower)
        descriptive_count == CountPresent(descriptive_words, text_lower)
        has_characters == AnyPresent(character_words, text_lower)
        has_setting == AnyPresent(setting_words, text_lower)
    IN  [imagination_keywords |-> imagination_count,
         descriptive_words |-> descriptive_count,
         includes_characters |-> has_characters,
         includes_setting |-> has_setting,
         creativity_score |->
             ClampScore(imagination_count + descriptive_count
                            + (IF has_characters THEN 2 ELSE 0)
                            + (IF has_setting THEN 2 ELSE 0))]

comprehension_phrases == <<"because", "so that", "that's why", "i think", "maybe">>

inference_phrases == <<"what if", "i wonder", "could be", "might be", "probably">>

\* Called only after extract_user_text(story_transcript) returned.
calculate_comprehension_metrics(story_transcript) ==
    LET messages == Get(story_transcript, "messages", List(<< >>)).list
        users == UserMessages(messages)
        user_messages == [i \in 1..Len(users) |-> users[i].text.str]
        user_text == lower(Join(" ", user_messages))
        comprehension_indicators == CountPresent(comprehension_phrases, user_text)
        inference_indicators == CountPresent(inference_phrases, user_text)
        relevant_responses ==
            Cardinality({i \in 1..Len(user_messages) : Len(split(user_messages[i])) > 2})
    IN  [comprehension_indicators |-> comprehension_indicators,
         inference_indicators |-> inference_indicators,
         relevant_responses |-> relevant_responses,
         comprehension_score |->
             ClampScore(comprehension_indicators * 2 + inference_indicators * 2)]

compute_metrics_with_llm(intro_transcript, story_transcript) ==
    [language_complexity |-> "age-appropriate",
     emotional_expression |-> "positive and engaged",
     social_awareness |-> "developing well",
     narrative_skills |-> "shows creativity",
     overall_assessment |->
         "The child demonstrates healthy language development with good imagination and engagement."]

\* vocab_score and overall_score are float sums; both are rounded from the
\* doubles Python computes, the additions done left to right.
generate_parent_summary(vocabulary, engagement, creativity, comprehension) ==
    LET vocab_sum ==
            FloatAdd(FloatTimes(FloatQuotient(vocabulary.diversity_ratio, 100), 10),
                     FloatQuotient(vocabulary.unique_words, 5))
        vocab_score == IF BigLess(vocab_sum, FloatOfInt(10)) THEN vocab_sum ELSE FloatOfInt(10)
        engage_score == Min(10, engagement.child_responses + engagement.questions_asked * 2)
        create_score == creativity.creativity_score
        compreh_score == comprehension.comprehension_score
        total == FloatAdd(FloatAdd(FloatAdd(vocab_score, FloatOfInt(engage_score)),
                                   FloatOfInt(create_score)),
                          FloatOfInt(compreh_score))
    IN  [overall_score |-> RoundTenths(total, 4),
         vocabulary_score |-> RoundTenths(vocab_score, 1),
         engagement_score |-> engage_score,
         creativity_score |-> create_score,
         comprehension_score |-> compreh_score,
         highlights |->
             <<"Used " \o ToString(vocabulary.unique_words) \o " unique words",
               "Asked " \o ToString(engagement.questions_asked) \o " questions during the story",
               "Showed " \o ToString(creativity.imagination_keywords) \o " imaginative ideas">>,
         encouragement |-> "Great job exploring stories together! Keep reading and imagining."]

\* Faulty variant: the engagement analyzer is handed the intro transcript.
compute_metrics_EngagementOfIntro(intro_transcript, story_transcript) ==
    LET intro_text ==
            IF Truthy(intro_transcript) THEN extract_user_text(intro_transcript) ELSE Ok("")
    IN  IF ~Returned(intro_text) THEN intro_text
        ELSE LET story_text == extract_user_text(story_transcript)
             IN  IF ~Returned(story_text) THEN story_text
                 ELSE LET combined_text == intro_text.val \o " " \o story_text.val
                          vocabulary == calculate_vocabulary_metrics(combined_text)
                          engagement == calculate_engagement_metrics(intro_transcript)
                          creativity == calculate_creativity_indicators(combined_text)
                          comprehension == calculate_comprehension_metrics(story_transcript)
                          llm_analysis ==
                              compute_metrics_with_llm(intro_transcript, story_transcript)
                          summary ==
                              generate_parent_summary(vocabulary, engagement,
                                                      creativity, comprehension)
                      IN  Ok([vocabulary |-> vocabulary,
                              engagement |-> engagement,
                              creativity |-> creativity,
                              comprehension |-> comprehension,
                              llm_analysis |-> llm_analysis,
                              summary |-> summary])

compute_metrics(intro_transcript, story_transcript) ==
    LET intro_text ==
            IF Truthy(intro_transcript) THEN extract_user_text(intro_transcript) ELSE Ok("")
    IN  IF ~Returned(intro_text) THEN intro_text
        ELSE LET story_text == extract_user_text(story_transcript)
             IN  IF ~Returned(story_text) THEN story_text
                 ELSE LET combined_text == intro_text.val \o " " \o story_text.val
                          vocabulary == calculate_vocabulary_metrics(combined_text)
                          engagement == calculate_engagement_metrics(story_transcript)
                          creativity == calculate_creativity_indicators(combined_text)
                          comprehension == calculate_comprehension_metrics(story_transcript)
                          llm_analysis ==
                              compute_metrics_with_llm(intro_transcript, story_transcript)
                          summary ==
                              generate_parent_summary(vocabulary, engagement,
                                                      creativity, comprehension)
                      IN  Ok([vocabulary |-> vocabulary,
                              engagement |-> engagement,
                              creativity |-> creativity,
                              comprehension |-> comprehension,
                              llm_analysis |-> llm_analysis,
                              summary |-> summary])

---------------------------------------------------------------------------
(* server.py: one session, requests handled one at a time.                 *)
(* The static-file routes and /debug/agents read no session field and are  *)
(* left out.                                                               *)

EmptySession ==
    [intro_conversation_id |-> None,
     story_agent_id |-> None,
     story_conversation_id |-> None,
     intro_transcript |-> None,
     story_transcript |-> None]

NoResponse == [route |-> "none", status |-> 0]

NoCall == [fn |-> "none"]

\* jsonify(body), status
Respond(route, status, body) == [route |-> route, status |-> status, body |-> body]

\* Flask's answer to an exception no handler catches
InternalServerError(route) == Respond(route, 500, [error |-> "Internal Server Error"])

\* the conversation ids a client may post: absent, empty, or an id
RequestConversationIds == {None, Str(""), Str("c1"), Str("c2")}

\* what the environment may hold for ADVENTURE_AGENT_ID
AgentIdConfigurations == {None, Str("adventure-agent")}

\* conversation documents the provider may answer with
ProviderConversations ==
    {[transcript |-> List(<<[role |-> Str("agent"), message |-> None],
                           [role |-> Str("user"), message |-> Str("A big dragon?")]>>)],
     [transcript |-> List(<<[role |-> Str("user")]>>)]}

\* how a provider call ends: a 200 answer, another status, or an exception
ProviderOutcomes == {"ok", "http_error", "exception"}

\* the handler made no story_processing call
NoLibraryCall == arg_intro' = None /\ arg_story' = None /\ arg_text' = None /\ ret' = NoCall

\* history: the route answered 200
Establish(route) == established' = established \cup {route}

\* for entry in conv_data.get("transcript", []): messages.append({...})
TranscriptOf(conversation_id, conv_data) ==
    LET entries == Get(conv_data, "transcript", List(<< >>)).list
    IN  [conversation_id |-> conversation_id,
         messages |-> List([i \in 1..Len(entries) |->
                               [role |-> Get(entries[i], "role", None),
                                text |-> Get(entries[i], "message", None)]])]

start_intro ==
    /\ \E outcome \in ProviderOutcomes :
          response' = IF outcome = "ok"
                      THEN Respond("/start_intro", 200, [success |-> TRUE])
                      ELSE Respond("/start_intro", 500, [success |-> FALSE, error |-> outcome])
    /\ NoLibraryCall
    /\ UNCHANGED <<session_data, ADVENTURE_AGENT_ID, established>>

set_intro_conversation_id ==
    /\ \E conversation_id \in RequestConversationIds :
          IF ~Truthy(conversation_id)
          THEN /\ response' = Respond("/set_intro_conversation_id", 400,
                                      [success |-> FALSE, error |-> "No conversation_id provided"])
               /\ UNCHANGED <<session_data, established>>
          ELSE /\ session_data' = [session_data EXCEPT !.intro_conversation_id = conversation_id]
               /\ response' = Respond("/set_intro_conversation_id", 200, [success |-> TRUE])
               /\ Establish("/set_intro_conversation_id")
    /\ NoLibraryCall
    /\ UNCHANGED ADVENTURE_AGENT_ID

get_intro_transcript ==
    /\ LET conversation_id == session_data.intro_conversation_id
       IN  IF ~Truthy(conversation_id)
           THEN /\ response' = Respond("/get_intro_transcript", 400,
                                       [success |-> FALSE, error |-> "No intro conversation found"])
                /\ UNCHANGED <<session_data, established>>
           ELSE \E outcome \in ProviderOutcomes :
                   IF outcome # "ok"
                   THEN /\ response' = Respond("/get_intro_transcript", 500,
                                               [success |-> FALSE, error |-> outcome])
                        /\ UNCHANGED <<session_data, established>>
                   ELSE \E conv_data \in ProviderConversations :
                           LET transcript == TranscriptOf(conversation_id, conv_data)
                           IN  /\ session_data' =
                                      [session_data EXCEPT !.intro_transcript = transcript]
                               /\ response' = Respond("/get_intro_transcript", 200,
                                                      [success |-> TRUE, transcript |-> transcript])
                               /\ Establish("/get_intro_transcript")
    /\ NoLibraryCall
    /\ UNCHANGED ADVENTURE_AGENT_ID

create_story_agent ==
    LET transcript == session_data.intro_transcript
        story_prompt ==
            IF Truthy(transcript) THEN build_story_prompt(transcript)
            ELSE Ok("No transcript available")
    IN  /\ IF Truthy(transcript)
           THEN /\ arg_intro' = transcript
                /\ arg_story' = None
                /\ arg_text' = None
                /\ ret' = [fn |-> "build_story_prompt", out |-> story_prompt]
           ELSE NoLibraryCall
        /\ IF ~Returned(story_prompt)
           THEN /\ response' = InternalServerError("/create_story_agent")
                /\ UNCHANGED <<session_data, established>>
           ELSE /\ session_data' = [session_data EXCEPT !.story_agent_id = ADVENTURE_AGENT_ID]
                /\ response' =
                       Respond("/create_story_agent", 200,
                               [success |-> TRUE,
                                story_agent_id |-> ADVENTURE_AGENT_ID,
                                prompt_preview |->
                                    SubSeq(story_prompt.val, 1, Min(200, Len(story_prompt.val)))
                                        \o "..."])
                /\ Establish("/create_story_agent")
        /\ UNCHANGED ADVENTURE_AGENT_ID

start_story ==
    /\ LET story_agent_id == session_data.story_agent_id
       IN  IF ~Truthy(story_agent_id)
           THEN response' = Respond("/start_story", 400,
                                    [success |-> FALSE, error |-> "No story agent created"])
           ELSE \E outcome \in ProviderOutcomes :
                   response' = IF outcome = "ok"
                               THEN Respond("/start_story", 200,
                                            [success |-> TRUE, agent_id |-> story_agent_id])
                               ELSE Respond("/start_story", 500,
                                            [success |-> FALSE, error |-> outcome])
    /\ established' = IF response'.status = 200 THEN established \cup {"/start_story"}
                      ELSE established
    /\ NoLibraryCall
    /\ UNCHANGED <<session_data, ADVENTURE_AGENT_ID>>

set_story_conversation_id ==
    /\ \E conversation_id \in RequestConversationIds :
          IF ~Truthy(conversation_id)
          THEN /\ response' = Respond("/set_story_conversation_id", 400,
                                      [success |-> FALSE, error |-> "No conversation_id provided"])
               /\ UNCHANGED <<session_data, established>>
          ELSE /\ session_data' = [session_data EXCEPT !.story_conversation_id = conversation_id]
               /\ response' = Respond("/set_story_conversation_id", 200, [success |-> TRUE])
               /\ Establish("/set_story_conversation_id")
    /\ NoLibraryCall
    /\ UNCHANGED ADVENTURE_AGENT_ID

get_story_transcript ==
    /\ LET conversation_id == session_data.story_conversation_id
       IN  IF ~Truthy(conversation_id)
           THEN /\ response' = Respond("/get_story_transcript", 400,
                                       [success |-> FALSE, error |-> "No story conversation found"])
                /\ UNCHANGED <<session_data, established>>
           ELSE \E outcome \in ProviderOutcomes :
                   IF outcome # "ok"
                   THEN /\ response' = Respond("/get_story_transcript", 500,
                                               [success |-> FALSE, error |-> outcome])
                        /\ UNCHANGED <<session_data, established>>
                   ELSE \E conv_data \in ProviderConversations :
                           LET transcript == TranscriptOf(conversation_id, conv_data)
                           IN  /\ session_data' =
                                      [session_data EXCEPT !.story_transcript = transcript]
                               /\ response' = Respond("/get_story_transcript", 200,
                                                      [success |-> TRUE, transcript |-> transcript])
                               /\ Establish("/get_story_transcript")
    /\ NoLibraryCall
    /\ UNCHANGED ADVENTURE_AGENT_ID

\* Faulty variant: the story transcript is consumed by the request that scores it.
get_metrics_Consuming ==
    LET intro_transcript == session_data.intro_transcript
        story_transcript == session_data.story_transcript
    IN  /\ IF ~Truthy(story_transcript)
           THEN /\ response' = Respond("/metrics", 400,
                                       [success |-> FALSE, error |-> "No story transcript found"])
                /\ NoLibraryCall
                /\ UNCHANGED <<session_data, established>>
           ELSE LET metrics == compute_metrics(intro_transcript, story_transcript)
                IN  /\ arg_intro' = intro_transcript
                    /\ arg_story' = story_transcript
                    /\ arg_text' = None
                    /\ ret' = [fn |-> "compute_metrics", out |-> metrics]
                    /\ session_data' = [session_data EXCEPT !.story_transcript = None]
                    /\ IF Returned(metrics)
                       THEN /\ response' = Respond("/metrics", 200,
                                                   [success |-> TRUE, metrics |-> metrics.val])
                            /\ Establish("/metrics")
                       ELSE /\ response' = InternalServerError("/metrics")
                            /\ UNCHANGED established
        /\ UNCHANGED ADVENTURE_AGENT_ID

get_metrics ==
    LET intro_transcript == session_data.intro_transcript
        story_transcript == session_data.story_transcript
    IN  /\ IF ~Truthy(story_transcript)
           THEN /\ response' = Respond("/metrics", 400,
                                       [success |-> FALSE, error |-> "No story transcript found"])
                /\ NoLibraryCall
                /\ UNCHANGED established
           ELSE LET metrics == compute_metrics(intro_transcript, story_transcript)
                IN  /\ arg_intro' = intro_transcript
                    /\ arg_story' = story_transcript
                    /\ arg_text' = None
                    /\ ret' = [fn |-> "compute_metrics", out |-> metrics]
                    /\ IF Returned(metrics)
                       THEN /\ response' = Respond("/metrics", 200,
                                                   [success |-> TRUE, metrics |-> metrics.val])
                            /\ Establish("/metrics")
                       ELSE /\ response' = InternalServerError("/metrics")
                            /\ UNCHANGED established
        /\ UNCHANGED <<session_data, ADVENTURE_AGENT_ID>>

\* Faulty variant: the reset clears the ids and leaves the stored transcripts.
reset_session_KeepsTranscripts ==
    /\ session_data' = [session_data EXCEPT !.intro_conversation_id = None,
                                            !.story_agent_id = None,
                                            !.story_conversation_id = None]
    /\ response' = Respond("/reset", 200, [success |-> TRUE, message |-> "Session reset"])
    /\ established' = {"/reset"}
    /\ NoLibraryCall
    /\ UNCHANGED ADVENTURE_AGENT_ID

reset_session ==
    /\ session_data' = EmptySession
    /\ response' = Respond("/reset", 200, [success |-> TRUE, message |-> "Session reset"])
    /\ established' = {"/reset"}
    /\ NoLibraryCall
    /\ UNCHANGED ADVENTURE_AGENT_ID

health_check ==
    /\ response' = Respond("/health", 200, [status |-> "healthy", app |-> "SoulSmith"])
    /\ NoLibraryCall
    /\ UNCHANGED <<session_data, ADVENTURE_AGENT_ID, established>>

Init ==
    /\ session_data = EmptySession
    /\ ADVENTURE_AGENT_ID \in AgentIdConfigurations
    /\ response = NoResponse
    /\ established = {}
    /\ in_flight = {}
    /\ arg_intro = None
    /\ arg_story = None
    /\ arg_text = None
    /\ ret = NoCall

\* requests handled one at a time: no handler is ever left waiting
Next ==
    \/ start_intro /\ UNCHANGED in_flight
    \/ set_intro_conversation_id /\ UNCHANGED in_flight
    \/ get_intro_transcript /\ UNCHANGED in_flight
    \/ create_story_agent /\ UNCHANGED in_flight
    \/ start_story /\ UNCHANGED in_flight
    \/ set_story_conversation_id /\ UNCHANGED in_flight
    \/ get_story_transcript /\ UNCHANGED in_flight
    \/ get_metrics /\ UNCHANGED in_flight
    \/ reset_session /\ UNCHANGED in_flight
    \/ health_check /\ UNCHANGED in_flight

Spec == Init /\ [][Next]_vars

---------------------------------------------------------------------------
(* server.py under a threaded server (app.run serves each request on its   *)
(* own thread): a transcript handler waits for the provider between        *)
(* reading the conversation id and storing the transcript, and other       *)
(* requests are handled meanwhile.  The other handlers hold no session     *)
(* data across a provider call and run as one step; those that touch       *)
(* neither a conversation id nor a transcript write (start_intro,          *)
(* create_story_agent, start_story, health_check) are left to Spec.        *)

MaxInFlight == 1

\* a handler waiting in requests.get: its route and the conversation id it
\* read; reset_since is history, whether a /reset completed since the read
Waiting(route, conversation_id) ==
    [route |-> route, conversation_id |-> conversation_id, reset_since |-> FALSE]

\* get_intro_transcript up to the provider call
get_intro_transcript_Begin ==
    LET conversation_id == session_data.intro_conversation_id
    IN  /\ Truthy(conversation_id)
        /\ Cardinality(in_flight) < MaxInFlight
        /\ in_flight' = in_flight \cup {Waiting("/get_intro_transcript", conversation_id)}
        /\ UNCHANGED <<session_data, ADVENTURE_AGENT_ID, response, established, call_vars>>

\* get_intro_transcript from the provider's answer on
get_intro_transcript_End ==
    \E handler \in in_flight :
        /\ handler.route = "/get_intro_transcript"
        /\ \E outcome \in ProviderOutcomes :
              IF outcome # "ok"
              THEN /\ response' = Respond("/get_intro_transcript", 500,
                                          [success |-> FALSE, error |-> outcome])
                   /\ UNCHANGED <<session_data, established>>
              ELSE \E conv_data \in ProviderConversations :
                      LET transcript == TranscriptOf(handler.conversation_id, conv_data)
                      IN  /\ session_data' =
                                 [session_data EXCEPT !.intro_transcript = transcript]
                          /\ response' = Respond("/get_intro_transcript", 200,
                                                 [success |-> TRUE, transcript |-> transcript])
                          /\ Establish("/get_intro_transcript")
        /\ in_flight' = in_flight \ {handler}
        /\ NoLibraryCall
        /\ UNCHANGED ADVENTURE_AGENT_ID

\* get_story_transcript up to the provider call
get_story_transcript_Begin ==
    LET conversation_id == session_data.story_conversation_id
    IN  /\ Truthy(conversation_id)
        /\ Cardinality(in_flight) < MaxInFlight
        /\ in_flight' = in_flight \cup {Waiting("/get_story_transcript", conversation_id)}
        /\ UNCHANGED <<session_data, ADVENTURE_AGENT_ID, response, established, call_vars>>

\* get_story_transcript from the provider's answer on
get_story_transcript_End ==
    \E handler \in in_flight :
        /\ handler.route = "/get_story_transcript"
        /\ \E outcome \in ProviderOutcomes :
              IF outcome # "ok"
              THEN /\ response' = Respond("/get_story_transcript", 500,
                                          [success |-> FALSE, error |-> outcome])
                   /\ UNCHANGED <<session_data, established>>
              ELSE \E conv_data \in ProviderConversations :
                      LET transcript == TranscriptOf(handler.conversation_id, conv_data)
                      IN  /\ session_data' =
                                 [session_data EXCEPT !.story_transcript = transcript]
                          /\ response' = Respond("/get_story_transcript", 200,
                                                 [success |-> TRUE, transcript |-> transcript])
                          /\ Establish("/get_story_transcript")
        /\ in_flight' = in_flight \ {handler}
        /\ NoLibraryCall
        /\ UNCHANGED ADVENTURE_AGENT_ID

\* history: every waiting handler has now seen a reset complete
ResetSeen == in_flight' = {[handler EXCEPT !.reset_since = TRUE] : handler \in in_flight}

ThreadedNext ==
    \/ set_intro_conversation_id /\ UNCHANGED in_flight
    \/ get_intro_transcript /\ UNCHANGED in_flight
    \/ get_intro_transcript_Begin
    \/ get_intro_transcript_End
    \/ set_story_conversation_id /\ UNCHANGED in_flight
    \/ get_story_transcript /\ UNCHANGED in_flight
    \/ get_story_transcript_Begin
    \/ get_story_transcript_End
    \/ get_metrics /\ UNCHANGED in_flight
    \/ reset_session /\ ResetSeen

ThreadedSpec == Init /\ [][ThreadedNext]_vars

---------------------------------------------------------------------------
(* Library calls: compute_metrics and build_story_prompt applied once to   *)
(* transcripts drawn from a bounded set.                                   *)

MaxIntroTurns == 2

MaxStoryTurns == 1

ScenarioAText == "I saw a magical unicorn! I think it was friendly."

DenseText ==
    "Maybe because that's why probably what if I wonder could be magical castle pet big sad tiny funny?"

\* The turns a transcript is built from: well-formed user and agent turns,
\* a user turn whose text is null, one with no text key, one with no role key.
TurnPool ==
    {[role |-> Str("user"), text |-> Str(ScenarioAText)],
     [role |-> Str("user"), text |-> Str("!!!")],
     [role |-> Str("user"), text |-> Str(DenseText)],
     [role |-> Str("agent"), text |-> Str("Shall we visit the castle?")],
     [role |-> Str("user"), text |-> None],
     [role |-> Str("user")],
     [text |-> Str("a tiny dragon")]}

\* all message lists of at most n turns
MessageLists(n) == UNION {[1..k -> TurnPool] : k \in 0..n}

\* transcripts as the server stores them, plus one with no messages key
Transcripts(n) ==
    {[conversation_id |-> Str("c1"), messages |-> List(ms)] : ms \in MessageLists(n)}
        \cup {[conversation_id |-> Str("c1")]}

CallInit ==
    /\ arg_intro \in Transcripts(MaxIntroTurns) \cup {None, << >>}
    /\ arg_story \in Transcripts(MaxStoryTurns)
    /\ arg_text = None
    /\ ret = NoCall

CallComputeMetrics ==
    /\ ret = NoCall
    /\ ret' = [fn |-> "compute_metrics", out |-> compute_metrics(arg_intro, arg_story)]
    /\ UNCHANGED <<arg_intro, arg_story, arg_text>>

CallBuildStoryPrompt ==
    /\ ret = NoCall
    /\ arg_intro # None
    /\ ret' = [fn |-> "build_story_prompt", out |-> build_story_prompt(arg_intro)]
    /\ UNCHANGED <<arg_intro, arg_story, arg_text>>

PureInit ==
    /\ CallInit
    /\ session_data = EmptySession
    /\ ADVENTURE_AGENT_ID = None
    /\ response = NoResponse
    /\ established = {}
    /\ in_flight = {}

PureNext ==
    \/ CallComputeMetrics /\ UNCHANGED server_vars
    \/ CallBuildStoryPrompt /\ UNCHANGED server_vars

PureSpec == PureInit /\ [][PureNext]_vars

---------------------------------------------------------------------------
(* Library calls: calculate_vocabulary_metrics applied once to a text of   *)
(* many repeated tokens.                                                   *)

MaxRepeats == 201

RECURSIVE Repeat(_, _)
\* n copies of token, separated by single spaces
Repeat(token, n) ==
    IF n = 0 THEN ""
    ELSE IF n = 1 THEN token
    ELSE Repeat(token, n \div 2) \o " " \o Repeat(token, n - n \div 2)

\* what may follow the repeated token: nothing, a punctuation-only token,
\* the token in another case, two other words
TextTails == {"", "!!!", "A", "b, c"}

\* the texts passed in: up to MaxRepeats copies of "a" and a tail
RepeatedTexts ==
    {Join(" ", SelectSeq(<<Repeat("a", n), tail>>, LAMBDA t : t # "")) :
        n \in 0..MaxRepeats, tail \in TextTails}

VocabularyInit ==
    /\ arg_text \in {Str(t) : t \in RepeatedTexts}
    /\ arg_intro = None
    /\ arg_story = None
    /\ ret = NoCall
    /\ session_data = EmptySession
    /\ ADVENTURE_AGENT_ID = None
    /\ response = NoResponse
    /\ established = {}
    /\ in_flight = {}

CallCalculateVocabularyMetrics ==
    /\ ret = NoCall
    /\ ret' = [fn |-> "calculate_vocabulary_metrics",
               out |-> Ok(calculate_vocabulary_metrics(arg_text.str))]
    /\ UNCHANGED <<arg_intro, arg_story, arg_text>>

VocabularyNext == CallCalculateVocabularyMetrics /\ UNCHANGED server_vars

VocabularySpec == VocabularyInit /\ [][VocabularyNext]_vars

---------------------------------------------------------------------------
(* Properties *)

\* the last library call was compute_metrics and it returned a bundle
MetricsReturned == ret.fn = "compute_metrics" /\ Returned(ret.out)

\* the last library call was build_story_prompt and it returned a text
PromptReturned == ret.fn = "build_story_prompt" /\ Returned(ret.out)

\* the user turns of a transcript that has a messages list, in order
UserTurnsOf(transcript) ==
    IF "messages" \in DOMAIN transcript
    THEN SelectSeq(transcript.messages.list, IsUserMessage)
    ELSE << >>

\* the last library call was calculate_vocabulary_metrics
VocabularyReturned == ret.fn = "calculate_vocabulary_metrics" /\ Returned(ret.out)

\* C1 as stated: diversity_ratio is 0 exactly when total_words is 0.
C1_ZeroIffNoWords ==
    VocabularyReturned =>
        (ret.out.val.diversity_ratio = 0 <=> ret.out.val.total_words = 0)

\* C1 amended: diversity_ratio is 0 exactly when total_words is 0 or
\* unique_words / total_words rounds to 0.00 (200 * unique_words <
\* total_words), which includes every text whose tokens are all punctuation
\* and a text of more than 200 copies of one word.
C1_ZeroIffRoundsToZero ==
    VocabularyReturned =>
        LET v == ret.out.val
        IN  v.diversity_ratio = 0
                <=> (v.total_words = 0 \/ 200 * v.unique_words < v.total_words)

\* C1 witness: one word repeated so often that the ratio rounds to 0.00.
C1_Witness ==
    /\ VocabularyReturned
    /\ ret.out.val.unique_words = 1
    /\ ret.out.val.total_words > 200
    /\ ret.out.val.diversity_ratio = 0

\* C2: unique_words <= total_words, and diversity_ratio lies in [0, 1]
\* (0..100 hundredths).
C2_UniqueAtMostTotal ==
    MetricsReturned =>
        LET v == ret.out.val.vocabulary
        IN  /\ 0 <= v.unique_words
            /\ v.unique_words <= v.total_words
            /\ 0 <= v.diversity_ratio
            /\ v.diversity_ratio <= 100

\* C2 witness: a text with a token that holds punctuation inside it, every
\* token a different word (unique_words = total_words).
C2_Witness ==
    /\ MetricsReturned
    /\ ~Truthy(arg_intro)
    /\ UserTurnsOf(arg_story) = <<[role |-> Str("user"), text |-> Str(DenseText)]>>
    /\ ret.out.val.vocabulary.unique_words = ret.out.val.vocabulary.total_words
    /\ ret.out.val.vocabulary.diversity_ratio = 100

\* the call of Scenario A: no earlier transcript, and a later transcript
\* whose only user turn is the scenario's sentence
ScenarioACall ==
    /\ ret.fn = "compute_metrics"
    /\ ~Truthy(arg_intro)
    /\ UserTurnsOf(arg_story) = <<[role |-> Str("user"), text |-> Str(ScenarioAText)]>>

\* C3 as stated: Scenario A yields imagination_keywords = 2,
\* comprehension_indicators = 1, no character and no setting.
C3_ScenarioAAsStated ==
    ScenarioACall =>
        /\ Returned(ret.out)
        /\ ret.out.val.creativity.imagination_keywords = 2
        /\ ret.out.val.comprehension.comprehension_indicators = 1
        /\ ret.out.val.creativity.includes_characters = FALSE
        /\ ret.out.val.creativity.includes_setting = FALSE

\* C3 amended: Scenario A yields imagination_keywords = 3 (magic, magical,
\* unicorn), comprehension_indicators = 1, includes_characters = true
\* ("friend" inside "friendly") and includes_setting = false.
C3_ScenarioA ==
    ScenarioACall =>
        /\ Returned(ret.out)
        /\ ret.out.val.creativity.imagination_keywords = 3
        /\ ret.out.val.comprehension.comprehension_indicators = 1
        /\ ret.out.val.creativity.includes_characters = TRUE
        /\ ret.out.val.creativity.includes_setting = FALSE

\* C3 witness: the Scenario A call has been made and has returned.
C3_Witness == ScenarioACall /\ Returned(ret.out)

\* C4: compute_metrics and build_story_prompt return on every transcript,
\* malformed ones included.
C4_AlwaysReturns == ret.fn # "none" => Returned(ret.out)

\* the text that stands between the template's two --- lines
PromptBlock(prompt) ==
    SubSeq(prompt, Len(StoryPromptHead) + 1, Len(prompt) - Len(StoryPromptTail))

RECURSIVE LinesOf(_, _)
\* the user-turn texts from turn i on, one per line
LinesOf(turns, i) ==
    IF i > Len(turns) THEN ""
    ELSE turns[i].text.str \o (IF i < Len(turns) THEN "\n" ELSE "") \o LinesOf(turns, i + 1)

\* C5: a returned prompt is the fixed text up to the first --- line, the
\* user-turn texts in turn order separated by single newlines, and the
\* fixed text from the second --- line on; agent turns add nothing.
C5_PromptHoldsUserTurns ==
    PromptReturned =>
        LET prompt == ret.out.val
        IN  /\ Len(prompt) >= Len(StoryPromptHead) + Len(StoryPromptTail)
            /\ SubSeq(prompt, 1, Len(StoryPromptHead)) = StoryPromptHead
            /\ SubSeq(prompt, Len(prompt) - Len(StoryPromptTail) + 1, Len(prompt))
                   = StoryPromptTail
            /\ SubSeq(StoryPromptHead, Len(StoryPromptHead) - 3, Len(StoryPromptHead))
                   = "---\n"
            /\ SubSeq(StoryPromptTail, 1, 5) = "\n---\n"
            /\ PromptBlock(prompt) = LinesOf(UserTurnsOf(arg_intro), 1)

\* C5 witness: a prompt built from two user turns with different texts.
C5_Witness ==
    /\ PromptReturned
    /\ Len(UserTurnsOf(arg_intro)) = 2
    /\ UserTurnsOf(arg_intro)[1] # UserTurnsOf(arg_intro)[2]

\* C6: a /metrics request answers 400 without calling compute_metrics and
\* without touching the session when no story transcript is stored, and
\* succeeds when one is stored.
C6_MetricsPrecondition ==
    [][response'.route = "/metrics" =>
          IF session_data.story_transcript = None
          THEN /\ response'.status = 400
               /\ response'.body.success = FALSE
               /\ ret' = NoCall
               /\ session_data' = session_data
          ELSE /\ response'.status = 200
               /\ response'.body.success = TRUE]_vars

\* the five session fields, each None or a single value
SessionShape ==
    /\ DOMAIN session_data =
           {"intro_conversation_id", "story_agent_id", "story_conversation_id",
            "intro_transcript", "story_transcript"}
    /\ \A k \in {"intro_transcript", "story_transcript"} :
           session_data[k] = None
               \/ DOMAIN session_data[k] = {"conversation_id", "messages"}

\* route answers 400 as long as its precondition's request has not
\* answered 200 since the last reset
FailsUntil(route, precondition) ==
    (response.route = route /\ precondition \notin established) => response.status = 400

\* C7: the session holds at most one transcript pair; a /reset leaves all
\* five fields None; and /metrics, /get_intro_transcript,
\* /get_story_transcript and /start_story answer 400 until the request that
\* establishes their precondition has succeeded since the reset.
C7_ResetClearsSession ==
    /\ SessionShape
    /\ response.route = "/reset" => session_data = EmptySession
    /\ FailsUntil("/metrics", "/get_story_transcript")
    /\ FailsUntil("/get_intro_transcript", "/set_intro_conversation_id")
    /\ FailsUntil("/get_story_transcript", "/set_story_conversation_id")
    /\ FailsUntil("/start_story", "/create_story_agent")

\* C7 witness: after a reset the story conversation id was set again, and
\* /metrics still answers 400 because no transcript was fetched since.
C7_Witness ==
    /\ "/reset" \in established
    /\ "/set_story_conversation_id" \in established
    /\ "/get_story_transcript" \notin established
    /\ response.route = "/metrics"
    /\ response.status = 400

\* the later transcript of the call has an empty messages list
EmptyStoryCall ==
    /\ ret.fn = "compute_metrics"
    /\ "messages" \in DOMAIN arg_story
    /\ arg_story.messages = List(<< >>)

VocabularyAllZero(m) ==
    /\ m.vocabulary.total_words = 0
    /\ m.vocabulary.unique_words = 0
    /\ m.vocabulary.diversity_ratio = 0
    /\ m.vocabulary.avg_word_length = 0

EngagementAllZero(m) ==
    /\ m.engagement.total_exchanges = 0
    /\ m.engagement.child_responses = 0
    /\ m.engagement.questions_asked = 0
    /\ m.engagement.avg_response_words = 0

\* the earlier transcript is absent or holds no user turn
NoEarlierUserTurn ==
    \/ ~Truthy(arg_intro)
    \/ UserTurnsOf(arg_intro) = << >>

\* C8 as stated: with an empty later transcript every returned bundle has
\* vocabulary and engagement all zero and the three scores zero, whatever
\* the earlier transcript.
C8_EmptyStoryAllZero ==
    (EmptyStoryCall /\ Returned(ret.out)) =>
        /\ VocabularyAllZero(ret.out.val)
        /\ EngagementAllZero(ret.out.val)
        /\ ret.out.val.creativity.creativity_score = 0
        /\ ret.out.val.comprehension.comprehension_score = 0
        /\ ret.out.val.summary.overall_score = 0

\* C8 amended: with an empty later transcript the engagement fields and
\* comprehension_score are 0 for every earlier transcript; the vocabulary
\* fields, creativity_score and overall_score are 0 when the earlier
\* transcript is absent or holds no user turn.
C8_EmptyStoryZeroWithoutEarlierText ==
    EmptyStoryCall =>
        /\ Returned(ret.out) =>
              /\ EngagementAllZero(ret.out.val)
              /\ ret.out.val.comprehension.comprehension_score = 0
        /\ NoEarlierUserTurn =>
              /\ Returned(ret.out)
              /\ VocabularyAllZero(ret.out.val)
              /\ ret.out.val.creativity.creativity_score = 0
              /\ ret.out.val.summary.overall_score = 0

\* C8 witness: an empty later transcript scored with an earlier transcript
\* that holds user text, so the vocabulary is not zero while engagement is.
C8_Witness ==
    /\ EmptyStoryCall
    /\ Returned(ret.out)
    /\ UserTurnsOf(arg_intro) # << >>
    /\ ret.out.val.vocabulary.total_words > 0
    /\ EngagementAllZero(ret.out.val)

\* C9: creativity_score and comprehension_score lie in 0..10 and the
\* summary carries both unchanged.
C9_ScoresClamped ==
    MetricsReturned =>
        LET m == ret.out.val
        IN  /\ m.creativity.creativity_score \in 0..10
            /\ m.comprehension.comprehension_score \in 0..10
            /\ m.summary.creativity_score = m.creativity.creativity_score
            /\ m.summary.comprehension_score = m.comprehension.comprehension_score

\* C9 witness: a text dense enough that both unclamped sums exceed 10.
C9_Witness ==
    /\ MetricsReturned
    /\ LET c == ret.out.val.creativity
           k == ret.out.val.comprehension
       IN  /\ c.imagination_keywords + c.descriptive_words
                  + (IF c.includes_characters THEN 2 ELSE 0)
                  + (IF c.includes_setting THEN 2 ELSE 0) > 10
           /\ 2 * k.comprehension_indicators + 2 * k.inference_indicators > 10
           /\ c.creativity_score = 10
           /\ k.comprehension_score = 10

\* C10: a /metrics request leaves the session and the transcripts it scored
\* as they were, and a /metrics request right after another returns the
\* same response.
C10_MetricsReadOnly ==
    [][response'.route = "/metrics" =>
          /\ session_data' = session_data
          /\ ret'.fn = "compute_metrics" =>
                /\ arg_intro' = session_data.intro_transcript
                /\ arg_story' = session_data.story_transcript
          /\ response.route = "/metrics" => response' = response]_vars

\* C10 witness: /metrics has scored a stored intro and story transcript.
C10_Witness ==
    /\ response.route = "/metrics"
    /\ response.status = 200
    /\ session_data.intro_transcript # None
    /\ session_data.story_transcript # None

\* the stored transcript under key names the conversation id under id_key
OfRegisteredConversation(key, id_key) ==
    session_data[key] # None =>
        session_data[key].conversation_id = session_data[id_key]

\* C11: a stored transcript belongs to the conversation currently
\* registered: its conversation_id equals the session's conversation id,
\* for the intro and for the story transcript.
C11_TranscriptOfRegisteredConversation ==
    /\ OfRegisteredConversation("intro_transcript", "intro_conversation_id")
    /\ OfRegisteredConversation("story_transcript", "story_conversation_id")

\* C12: a transcript handler that was waiting for the provider while a
\* /reset completed stores nothing: the step that ends it leaves the
\* session as the reset (and the requests after it) left it.
C12_ResetWinsOverFetch ==
    [][\A handler \in in_flight :
           (handler.reset_since /\ handler \notin in_flight')
               => session_data' = session_data]_vars

====
